---- MODULE Spec2Model ----
(***************************************************************************)
(* Model of finbot/agent.py: the money parser, the figure extractor, the   *)
(* summary composer, the row builder, the link discoverer and the three    *)
(* pipeline entry points.                                                  *)
(*                                                                         *)
(* Text is a sequence of one-character strings, so that the regular        *)
(* expressions of the source are matched character by character.  A        *)
(* Python Optional is None == <<>> or Some(x) == <<x>>.  A float is a      *)
(* decimal [m |-> mantissa, x |-> exponent] meaning m * 10^x, kept in      *)
(* normal form (m has no trailing zero), so that 14_900_000_000 is         *)
(* [m |-> 149, x |-> 8] and fits the checker's integers.                   *)
(***************************************************************************)
EXTENDS Integers, Sequences, FiniteSets, TLC

VARIABLES pc, call, arg, urls, idx, rows, env, links, exc, out

vars == <<pc, call, arg, urls, idx, rows, env, links, exc, out>>

None == <<>>
Some(x) == <<x>>

----------------------------------------------------------------------------
(* Characters *)

Digits == {"0", "1", "2", "3", "4", "5", "6", "7", "8", "9"}

DigitVal == ("0" :> 0) @@ ("1" :> 1) @@ ("2" :> 2) @@ ("3" :> 3) @@ ("4" :> 4) @@
            ("5" :> 5) @@ ("6" :> 6) @@ ("7" :> 7) @@ ("8" :> 8) @@ ("9" :> 9)

\* \s of the re module, as far as the inputs use it
Whitespace == {" ", "\n", "\t"}

\* [0-9.,]
NumChars == Digits \cup {".", ","}

UpperToLower ==
    ("A" :> "a") @@ ("B" :> "b") @@ ("C" :> "c") @@ ("D" :> "d") @@ ("E" :> "e") @@
    ("F" :> "f") @@ ("G" :> "g") @@ ("H" :> "h") @@ ("I" :> "i") @@ ("J" :> "j") @@
    ("K" :> "k") @@ ("L" :> "l") @@ ("M" :> "m") @@ ("N" :> "n") @@ ("O" :> "o") @@
    ("P" :> "p") @@ ("Q" :> "q") @@ ("R" :> "r") @@ ("S" :> "s") @@ ("T" :> "t") @@
    ("U" :> "u") @@ ("V" :> "v") @@ ("W" :> "w") @@ ("X" :> "x") @@ ("Y" :> "y") @@
    ("Z" :> "z")

\* str.lower() on one character; also the case folding of re.I
Lower(c) == IF c \in DOMAIN UpperToLower THEN UpperToLower[c] ELSE c

LowerStr(s) == [i \in 1..Len(s) |-> Lower(s[i])]

\* s[i:] starts with the (lower-case) literal lit, ignoring case
StartsWithCI(s, i, lit) ==
    /\ i >= 1
    /\ i + Len(lit) - 1 <= Len(s)
    /\ \A j \in 1..Len(lit) : Lower(s[i + j - 1]) = lit[j]

\* the index after the longest run of characters of class cls that starts at i
RECURSIVE RunEnd(_, _, _)
RunEnd(s, i, cls) ==
    IF i <= Len(s) /\ s[i] \in cls THEN RunEnd(s, i + 1, cls) ELSE i

\* the index after the longest run of characters outside cls that starts at i
RECURSIVE RunEndNot(_, _, _)
RunEndNot(s, i, cls) ==
    IF i <= Len(s) /\ s[i] \notin cls THEN RunEndNot(s, i + 1, cls) ELSE i

\* s[i:j] of Python with 1-based i and exclusive j
Slice(s, i, j) == IF j <= i THEN <<>> ELSE SubSeq(s, i, j - 1)

\* str.replace(c, "")
Remove(s, c) == SelectSeq(s, LAMBDA ch : ch # c)

RECURSIVE LastNonWs(_, _)
LastNonWs(s, j) == IF j >= 1 /\ s[j] \in Whitespace THEN LastNonWs(s, j - 1) ELSE j

\* str.strip()
Strip(s) == Slice(s, RunEnd(s, 1, Whitespace), LastNonWs(s, Len(s)) + 1)

\* re.sub(r"\s+", " ", s): every run of whitespace becomes one space
RECURSIVE CollapseFrom(_, _)
CollapseFrom(s, i) ==
    LET word(j) == Slice(s, i, j) \o CollapseFrom(s, j)
    IN  IF i > Len(s) THEN <<>>
        ELSE IF s[i] \in Whitespace
             THEN <<" ">> \o CollapseFrom(s, RunEnd(s, i, Whitespace))
             ELSE word(RunEndNot(s, i, Whitespace))

CollapseWs(s) == CollapseFrom(s, 1)

\* str.split(): the whitespace-delimited tokens
RECURSIVE SplitFrom(_, _)
SplitFrom(s, i) ==
    LET token(a, b) == <<Slice(s, a, b)>> \o SplitFrom(s, b)
        from(a) == IF a > Len(s) THEN <<>> ELSE token(a, RunEndNot(s, a, Whitespace))
    IN  from(RunEnd(s, i, Whitespace))

Split(s) == SplitFrom(s, 1)

----------------------------------------------------------------------------
(* Numbers *)

\* the normal form of m * 10^x
RECURSIVE Norm(_, _)
Norm(m, x) ==
    IF m = 0 THEN [m |-> 0, x |-> 0]
    ELSE IF m % 10 = 0 THEN Norm(m \div 10, x + 1)
    ELSE [m |-> m, x |-> x]

\* n * 10^k
Scale(n, k) == Norm(n.m, n.x + k)

Neg(n) == [m |-> 0 - n.m, x |-> n.x]

\* abs(y)
Abs(n) == IF n.m < 0 THEN Neg(n) ELSE n

RECURSIVE DigitsValue(_, _, _)
DigitsValue(s, i, acc) ==
    IF i > Len(s) THEN acc
    ELSE IF s[i] = "." THEN DigitsValue(s, i + 1, acc)
    ELSE DigitsValue(s, i + 1, acc * 10 + DigitVal[s[i]])

CountOf(s, cls) == Cardinality({i \in 1..Len(s) : s[i] \in cls})

\* the number of digits after the "." of s, 0 without one
FracDigits(s) ==
    LET after(dot) == IF dot <= Len(s) THEN Len(s) - dot ELSE 0
    IN  after(RunEndNot(s, 1, {"."}))

\* an unsigned decimal literal float() accepts: digits with at most one point
IsUnsignedDecimal(s) ==
    /\ \A i \in 1..Len(s) : s[i] \in Digits \cup {"."}
    /\ CountOf(s, {"."}) <= 1
    /\ CountOf(s, Digits) >= 1

\* the value of sign body, or None for the ValueError of float()
Decimal(sign, body) ==
    LET signed(v) == IF sign = "-" THEN Neg(v) ELSE v
    IN  IF IsUnsignedDecimal(body)
        THEN Some(signed(Norm(DigitsValue(body, 1, 0), 0 - FracDigits(body))))
        ELSE None

\* float(s) for the literals the inputs can form: an optional sign, digits and
\* at most one point
PyFloat(s) ==
    IF Len(s) >= 1 /\ s[1] \in {"+", "-"}
    THEN Decimal(s[1], Slice(s, 2, Len(s) + 1))
    ELSE Decimal("+", s)

\* _to_float: '1,234.56' -> 1234.56, None when float() raises
_to_float(num_str) == PyFloat(Strip(Remove(num_str, ",")))

----------------------------------------------------------------------------
(* Money parser *)

\* 1_000_000_000, 1_000_000 and 1_000 as powers of ten
BillionExp == 9
MillionExp == 6
ThousandExp == 3

\* (billion|bn|million|mn|thousand|k), in the order the alternation tries them
UnitWords == << <<"b","i","l","l","i","o","n">>, <<"b","n">>, <<"m","i","l","l","i","o","n">>, <<"m","n">>, <<"t","h","o","u","s","a","n","d">>, <<"k">> >>

\* group(2) of the match, lower-cased; <<>> when the optional group did not match
RECURSIVE UnitAt(_, _, _)
UnitAt(s, i, n) ==
    IF n > Len(UnitWords) THEN <<>>
    ELSE IF StartsWithCI(s, i, UnitWords[n]) THEN UnitWords[n]
    ELSE UnitAt(s, i, n + 1)

\* Faulty variant of UnitExp: million and thousand swapped
UnitExp_swapped(unit) ==
    IF unit \in {<<"b","i","l","l","i","o","n">>, <<"b","n">>} THEN BillionExp
    ELSE IF unit \in {<<"m","i","l","l","i","o","n">>, <<"m","n">>} THEN ThousandExp
    ELSE IF unit \in {<<"t","h","o","u","s","a","n","d">>, <<"k">>} THEN MillionExp
    ELSE 0

\* the power of ten the unit multiplies by (lines 95-102)
UnitExp(unit) ==
    IF unit \in {<<"b","i","l","l","i","o","n">>, <<"b","n">>} THEN BillionExp
    ELSE IF unit \in {<<"m","i","l","l","i","o","n">>, <<"m","n">>} THEN MillionExp
    ELSE IF unit \in {<<"t","h","o","u","s","a","n","d">>, <<"k">>} THEN ThousandExp
    ELSE 0

\* _parse_money: re.search(r"\$?\s*([0-9.,]+)\s*(billion|...|k)?", value, re.I).
\* The leftmost match puts group 1 on the first maximal run of [0-9.,], from
\* i to j; the optional "$" and \s* before it never move it.  The unit is
\* looked for after the whitespace that follows the run.
_parse_money(value) ==
    LET scaled(num, unit) == IF num = None THEN None
                             ELSE Some(Scale(num[1], UnitExp(unit)))
        run(i, j) == scaled(_to_float(Slice(value, i, j)),
                            UnitAt(value, RunEnd(value, j, Whitespace), 1))
        from(i) == IF i > Len(value) THEN None ELSE run(i, RunEnd(value, i, NumChars))
    IN  from(RunEndNot(value, 1, NumChars))

----------------------------------------------------------------------------
(* Figure extractor *)

\* [^\.\;\n] is every character outside Delims
Delims == {".", ";", "\n"}

\* (?:was|were|of|to), in order
LinkWords == << <<"w","a","s">>, <<"w","e","r","e">>, <<"o","f">>, <<"t","o">> >>

\* the length of the alternative of (?:was|were|of|to) that matches at i, or 0
RECURSIVE AltLen(_, _, _)
AltLen(t, i, n) ==
    IF n > Len(LinkWords) THEN 0
    ELSE IF StartsWithCI(t, i, LinkWords[n]) THEN Len(LinkWords[n])
    ELSE AltLen(t, i, n + 1)

\* the largest j in p..q-1 with t[j] outside Delims, or 0: where the capture
\* starts once the greedy \s* has had to give characters back
RECURSIVE BacktrackStart(_, _, _)
BacktrackStart(t, p, j) ==
    IF j < p THEN 0
    ELSE IF t[j] \notin Delims THEN j
    ELSE BacktrackStart(t, p, j - 1)

\* \s*([^\.\;\n]+) at p: the captured text, or None when it cannot match.
\* The greedy \s* ends at q and the capture runs from q to h; when nothing is
\* left for the capture, \s* gives back the whitespace from b on.
Capture(t, p) ==
    LET back(b) == IF b > 0 THEN Some(Slice(t, b, RunEndNot(t, b, Delims))) ELSE None
        run(q, h) == IF h > q THEN Some(Slice(t, q, h))
                     ELSE back(BacktrackStart(t, p, q - 1))
        from(q) == run(q, RunEndNot(t, q, Delims))
    IN  from(RunEnd(t, p, Whitespace))

\* \s*(?:was|were|of|to)\s*([^\.\;\n]+) at p
LinkAndCapture(t, p) ==
    LET link(q, n) == IF n = 0 THEN None ELSE Capture(t, q + n)
        from(q) == link(q, AltLen(t, q, 1))
    IN  from(RunEnd(t, p, Whitespace))

\* the index after word\s+ at i, or 0
AfterWordWs(t, i, word) ==
    LET end(e) == IF StartsWithCI(t, i, word) /\ e > i + Len(word) THEN e ELSE 0
    IN  end(RunEnd(t, i + Len(word), Whitespace))

\* the first capture of caps that is not None, or None
FirstSome(caps) ==
    LET hits == {s \in DOMAIN caps : caps[s] # None}
    IN  IF hits = {} THEN None ELSE caps[CHOOSE s \in hits : \A u \in hits : s <= u]

\* revenue\s*(?:was|were|of|to)\s*([^\.\;\n]+) at i
RevenueTail(t, i) ==
    IF StartsWithCI(t, i, <<"r","e","v","e","n","u","e">>) THEN LinkAndCapture(t, i + 7) ELSE None

\* patterns["revenue"] tried at start position s: with (?:total\s+), then
\* without it
RevenueAt(t, s) ==
    LET try(starts) == FirstSome([k \in 1..2 |-> RevenueTail(t, starts[k])])
    IN  try(<<AfterWordWs(t, s, <<"t","o","t","a","l">>), s>>)

\* net\s+income\s*(?:was|were|of|to)\s*([^\.\;\n]+) at i
NetIncomeTail(t, i) ==
    LET income(a) == IF a > 0 /\ StartsWithCI(t, a, <<"i","n","c","o","m","e">>)
                     THEN LinkAndCapture(t, a + 6) ELSE None
    IN  income(AfterWordWs(t, i, <<"n","e","t">>))

\* patterns["net_income"] tried at start position s: with (?:gaap\s+), then
\* without it
NetIncomeAt(t, s) ==
    LET try(starts) == FirstSome([k \in 1..2 |-> NetIncomeTail(t, starts[k])])
    IN  try(<<AfterWordWs(t, s, <<"g","a","a","p">>), s>>)

\* [^\.\n]*?\s(?:was|were|of|to)\s*([^\.\;\n]+) at e: the lazy skip grows one
\* character at a time and never crosses "." or a newline
RECURSIVE EpsLazy(_, _)
EpsLazy(t, e) ==
    LET next(here) == IF here # None THEN here
                      ELSE IF e <= Len(t) /\ t[e] \notin {".", "\n"}
                           THEN EpsLazy(t, e + 1)
                           ELSE None
        try(n) == IF e <= Len(t) /\ t[e] \in Whitespace /\ n > 0
                  THEN Capture(t, e + 1 + n) ELSE None
    IN  next(try(AltLen(t, e + 1, 1)))

\* patterns["eps"] tried at start position s
EpsAt(t, s) ==
    LET share(b) == IF b > 0 /\ StartsWithCI(t, b, <<"s","h","a","r","e">>)
                    THEN EpsLazy(t, b + 5) ELSE None
        per(a) == share(IF a > 0 THEN AfterWordWs(t, a, <<"p","e","r">>) ELSE 0)
    IN  per(AfterWordWs(t, s, <<"e","a","r","n","i","n","g","s">>))

\* ([+\-]?[0-9.,]+\s*%) at q: the captured text, or None.  The number runs
\* from a to b and the "%" is at c.
YoyGroup(t, q) ==
    LET pct(a, b, c) == IF b > a /\ c <= Len(t) /\ t[c] = "%"
                        THEN Some(Slice(t, q, c + 1)) ELSE None
        ws(a, b) == pct(a, b, RunEnd(t, b, Whitespace))
        num(a) == ws(a, RunEnd(t, a, NumChars))
    IN  num(IF q <= Len(t) /\ t[q] \in {"+", "-"} THEN q + 1 ELSE q)

\* [^0-9%]*(...) from p: the greedy skip first takes everything up to q and
\* gives characters back one at a time
RECURSIVE YoySkip(_, _, _)
YoySkip(t, p, q) ==
    LET next(here) == IF here # None THEN here ELSE YoySkip(t, p, q - 1)
    IN  IF q < p THEN None ELSE next(YoyGroup(t, q))

\* the index after (?:year[- ]over[- ]year|YoY) at s, or 0
YoyTrigger(t, s) ==
    IF /\ StartsWithCI(t, s, <<"y","e","a","r">>)
       /\ s + 13 <= Len(t)
       /\ t[s + 4] \in {"-", " "}
       /\ StartsWithCI(t, s + 5, <<"o","v","e","r">>)
       /\ t[s + 9] \in {"-", " "}
       /\ StartsWithCI(t, s + 10, <<"y","e","a","r">>)
    THEN s + 14
    ELSE IF StartsWithCI(t, s, <<"y","o","y">>) THEN s + 3
    ELSE 0

\* patterns["yoy"] tried at start position s
YoyAt(t, s) ==
    LET skip(p) == IF p = 0 THEN None
                   ELSE YoySkip(t, p, RunEndNot(t, p, Digits \cup {"%"}))
    IN  skip(YoyTrigger(t, s))

\* re.search: the capture of the match at the leftmost start position where
\* the pattern matches, or None
SearchRevenue(t) == FirstSome([s \in 1..Len(t) |-> RevenueAt(t, s)])

SearchNetIncome(t) == FirstSome([s \in 1..Len(t) |-> NetIncomeAt(t, s)])

SearchEps(t) == FirstSome([s \in 1..Len(t) |-> EpsAt(t, s)])

SearchYoy(t) == FirstSome([s \in 1..Len(t) |-> YoyAt(t, s)])

\* what a call produces: a value, or an exception that leaves the call
Ok(v) == [exc |-> "", val |-> v]
Raise(e) == [exc |-> e, val |-> <<>>]

\* the dict {key: v} when v is a value, {} when v is None
Entry(key, v) == IF v = None THEN <<>> ELSE key :> v[1]

FigureKeys == {"revenue", "net_income", "eps", "yoy_percent"}

\* lines 119-122 and 124-127: the capture through _parse_money
MoneyFigure(m) == IF m = None THEN None ELSE _parse_money(m[1])

\* m.group(1).replace("$", "").split() of line 130
EpsTokens(m) == Split(Remove(m[1], "$"))

\* lines 131-133
EpsFigure(m) == IF m = None THEN None ELSE _to_float(EpsTokens(m)[1])

\* lines 136-138
YoyFigure(m) == IF m = None THEN None ELSE _to_float(Remove(m[1], "%"))

\* lines 118-139 on the four search results; [0] of line 130 raises
\* IndexError when the eps capture holds no token
Figures(rev, ni, eps, yoy) ==
    IF eps # None /\ EpsTokens(eps) = <<>> THEN Raise("IndexError")
    ELSE Ok(Entry("revenue", MoneyFigure(rev))
            @@ Entry("net_income", MoneyFigure(ni))
            @@ Entry("eps", EpsFigure(eps))
            @@ Entry("yoy_percent", YoyFigure(yoy)))

\* extract_financial_figures (lines 105-139)
extract_financial_figures(text) ==
    LET search(t) == Figures(SearchRevenue(t), SearchNetIncome(t), SearchEps(t),
                             SearchYoy(t))
    IN  IF text = <<>> THEN Ok(<<>>) ELSE search(CollapseWs(text))

----------------------------------------------------------------------------
(* Summary composer *)

\* One " | "-separated segment of the summary line: its label, the title text
\* or the number it renders, the format specification of the f-string, and
\* the direction word of the YoY segment.
Part(label, txt, val, fmt, dir) ==
    [label |-> label, txt |-> txt, val |-> val, fmt |-> fmt, dir |-> dir]

\* "Summary: No explicit financial figures detected in the source text."
Sentinel == << Part("Summary: No explicit financial figures detected in the source text.",
                    <<>>, None, "", "") >>

\* the segments of lines 145-155, in the order they are appended
SummaryParts(title, figs) ==
    (IF title # None /\ title[1] # <<>>
     THEN << Part("Report: ", title[1], None, "", "") >> ELSE <<>>)
    \o (IF "revenue" \in DOMAIN figs
        THEN << Part("Revenue: $", <<>>, Some(figs["revenue"]), ",.0f", "") >> ELSE <<>>)
    \o (IF "net_income" \in DOMAIN figs
        THEN << Part("Net income: $", <<>>, Some(figs["net_income"]), ",.0f", "") >> ELSE <<>>)
    \o (IF "eps" \in DOMAIN figs
        THEN << Part("EPS: ", <<>>, Some(figs["eps"]), ".2f", "") >> ELSE <<>>)
    \o (IF "yoy_percent" \in DOMAIN figs
        THEN << Part("YoY: ", <<>>, Some(Abs(figs["yoy_percent"])), ".1f",
                     IF figs["yoy_percent"].m >= 0 THEN "up" ELSE "down") >>
        ELSE <<>>)

\* Faulty variant of compose_summary: the sentinel whenever no figure is present,
\* whatever the title
compose_summary_ignores_title(title, figs) ==
    IF DOMAIN figs \cap FigureKeys = {} THEN Sentinel ELSE SummaryParts(title, figs)

\* compose_summary: " | ".join(parts) if parts else the sentinel
compose_summary(title, figs) ==
    LET join(parts) == IF parts # <<>> THEN parts ELSE Sentinel
    IN  join(SummaryParts(title, figs))

----------------------------------------------------------------------------
(* URLs *)

Letters == DOMAIN UpperToLower \cup {UpperToLower[c] : c \in DOMAIN UpperToLower}

\* the characters urlsplit accepts in a scheme
SchemeChars == Letters \cup Digits \cup {"+", "-", "."}

\* urlparse(url).scheme: the text before the first ":" (at i) when it starts
\* with a letter and holds scheme characters only, lower-cased; <<>> otherwise
UrlScheme(url) ==
    LET scheme(i) == IF /\ i <= Len(url)
                        /\ i > 1
                        /\ url[1] \in Letters
                        /\ \A j \in 1..(i - 1) : url[j] \in SchemeChars
                     THEN LowerStr(Slice(url, 1, i))
                     ELSE <<>>
    IN  scheme(RunEndNot(url, 1, {":"}))

\* urlparse(url).netloc: after the scheme, the text between "//" and the next
\* "/", "?" or "#"
UrlNetloc(url) ==
    LET netloc(a) == IF a + 1 <= Len(url) /\ url[a] = "/" /\ url[a + 1] = "/"
                     THEN Slice(url, a + 2, RunEndNot(url, a + 2, {"/", "?", "#"}))
                     ELSE <<>>
        after(s) == netloc(IF s = <<>> THEN 1 ELSE Len(s) + 2)
    IN  after(UrlScheme(url))

\* Faulty variant of _normalize_url: the scheme is never added
_normalize_url_identity(url) == url

\* _normalize_url (lines 31-38)
_normalize_url(url) ==
    IF url = <<>> THEN url
    ELSE IF UrlScheme(url) = <<>> THEN <<"h","t","t","p","s",":","/","/">> \o url
    ELSE url

\* urljoin(base, href) for the references the index pages hold: an absolute
\* URL is kept, a path starting with "/" replaces the path of base, any other
\* reference replaces the last segment of the path of base
urljoin(base, href) ==
    LET lastSlash == CHOOSE j \in 0..Len(base) :
                        /\ j = 0 \/ base[j] = "/"
                        /\ \A k \in (j + 1)..Len(base) : base[k] # "/"
        join(pathAt) ==
            IF href[1] = "/" THEN Slice(base, 1, pathAt) \o href
            ELSE IF lastSlash >= pathAt THEN Slice(base, 1, lastSlash + 1) \o href
            ELSE Slice(base, 1, pathAt) \o <<"/">> \o href
    IN  IF href = <<>> THEN base
        ELSE IF UrlScheme(href) # <<>> THEN href
        ELSE join(Len(UrlScheme(base)) + 4 + Len(UrlNetloc(base)))

----------------------------------------------------------------------------
(* Pages, fetching and text extraction *)

\* An HTML document as BeautifulSoup sees it: the text of its <title> tag
\* (None without one), the visible text of its body, and its <a href> tags.
Doc(title, body, anchors) == [title |-> title, body |-> body, anchors |-> anchors]

Anchor(href, text) == [href |-> href, text |-> text]

\* " ".join of the texts of a list of anchors
RECURSIVE AnchorTexts(_, _)
AnchorTexts(anchors, i) ==
    IF i > Len(anchors) THEN <<>>
    ELSE <<" ">> \o anchors[i].text \o AnchorTexts(anchors, i + 1)

\* soup.get_text(" "): the text nodes of the document, separated by a space
GetText(doc) ==
    (IF doc.title = None THEN <<>> ELSE doc.title[1] \o <<" ">>)
    \o doc.body \o AnchorTexts(doc.anchors, 1)

\* requests only fetches http and https URLs; for any other URL
\* requests.get raises, and _fetch_html returns None
Fetchable(url) == UrlScheme(url) \in {<<"h","t","t","p">>, <<"h","t","t","p","s">>}

\* the title of lines 196-203: title_tag.get_text(strip=True), or None
PageTitle(html) ==
    IF html = None THEN None
    ELSE IF html[1].title = None THEN None
    ELSE Some(Strip(html[1].title[1]))

\* _extract_text (lines 53-72).  traf is what trafilatura.extract(
\* trafilatura.fetch_url(url)) gave for the URL: Some(text), or None for
\* nothing or an exception.
_extract_text(traf, html) ==
    LET fallback(text) == IF text # <<>> THEN Some(text) ELSE None
    IN
    IF traf # None /\ traf[1] # <<>> THEN traf
    ELSE IF html = None THEN None
    ELSE fallback(Strip(CollapseWs(GetText(html[1]))))

----------------------------------------------------------------------------
(* Row assembly *)

\* figs.get(key)
Get(figs, key) == IF key \in DOMAIN figs THEN Some(figs[key]) ELSE None

\* the dictionary of lines 168-183
Row(url, title, text, figs) ==
    [title |-> title, url |-> url, site |-> UrlNetloc(url),
     author |-> None, date |-> None, snippet |-> None, language |-> None,
     length_chars |-> IF text = None THEN 0 ELSE Len(text[1]),
     revenue_usd |-> Get(figs, "revenue"),
     net_income_usd |-> Get(figs, "net_income"),
     eps |-> Get(figs, "eps"),
     yoy_percent |-> Get(figs, "yoy_percent"),
     guidance |-> None,
     summary |-> compose_summary(title, figs)]

\* _build_row (lines 163-183); the exception of the figure extractor leaves it
_build_row(url, title, text) ==
    LET row(r) == IF r.exc # "" THEN Raise(r.exc) ELSE Ok(Row(url, title, text, r.val))
    IN  row(extract_financial_figures(IF text = None THEN <<>> ELSE text[1]))

----------------------------------------------------------------------------
(* Link discoverer *)

ContainsCI(s, lit) == \E i \in 1..Len(s) : StartsWithCI(s, i, lit)

\* press[-]?release|news[-]?release|financial-results|financial-results|earnings
HrefWords == { <<"p","r","e","s","s","r","e","l","e","a","s","e">>, <<"p","r","e","s","s","-","r","e","l","e","a","s","e">>, <<"n","e","w","s","r","e","l","e","a","s","e">>,
               <<"n","e","w","s","-","r","e","l","e","a","s","e">>, <<"f","i","n","a","n","c","i","a","l","-","r","e","s","u","l","t","s">>, <<"e","a","r","n","i","n","g","s">> }

\* the words looked for in the lower-cased anchor text
TextWords == { <<"p","r","e","s","s"," ","r","e","l","e","a","s","e">>, <<"f","i","n","a","n","c","i","a","l"," ","r","e","s","u","l","t","s">>, <<"e","a","r","n","i","n","g","s">> }

\* the condition of lines 238-239 on one anchor
Qualifies(a) ==
    \/ \E w \in HrefWords : ContainsCI(Strip(a.href), w)
    \/ \E w \in TextWords : ContainsCI(Strip(a.text), w)

\* the loop of lines 234-242 from anchor i on, with the candidates so far
RECURSIVE DiscoverLoop(_, _, _, _, _)
DiscoverLoop(index_url, anchors, i, candidates, max_links) ==
    IF i > Len(anchors) THEN candidates
    ELSE LET loop(next) == IF Len(next) >= max_links THEN next
                           ELSE DiscoverLoop(index_url, anchors, i + 1, next, max_links)
         IN  loop(IF Qualifies(anchors[i])
                  THEN Append(candidates, urljoin(index_url, Strip(anchors[i].href)))
                  ELSE candidates)

\* _discover_press_release_links (lines 226-245), given what _fetch_html returned
_discover_press_release_links(index_url, html, max_links) ==
    IF html = None THEN <<>>
    ELSE DiscoverLoop(index_url, html[1].anchors, 1, <<>>, max_links)

----------------------------------------------------------------------------
(* Bounds and inputs *)

\* the longest list of URLs (and of search results) a call is given
MaxUrls == 2

\* the largest max_links a call is given
MaxLinks == 2

\* the most <a href> tags an index page holds
MaxAnchors == 2

SeqsUpTo(S, n) == UNION {[1..k -> S] : k \in 0..n}

Num(m, x) == [m |-> m, x |-> x]

\* the URLs a caller passes: the empty string, a URL without a scheme, a URL
\* with one
Urls == { <<>>, <<"a",".","c","o">>, <<"h","t","t","p","s",":","/","/","b",".","c","o","/","i","r">> }

IndexUrls == { <<>>, <<"a",".","c","o","/","n","e","w","s">>, <<"h","t","t","p","s",":","/","/","b",".","c","o","/","n","e","w","s">> }

\* a page with a title and figures, a page with a title and no figure, a page
\* whose earnings-per-share amount is written "$.45"
PageDocs ==
    { Doc(Some(<<" ","Q","3"," ">>), <<"R","e","v","e","n","u","e"," ","w","a","s"," ","$","5"," ","m","i","l","l","i","o","n","."," ","Y","o","Y"," ","-","3","%">>, <<>>),
      Doc(Some(<<"N","e","w","s">>), <<"N","o"," ","n","u","m","b","e","r","s"," ","h","e","r","e">>, <<>>),
      Doc(None, <<"E","a","r","n","i","n","g","s"," ","p","e","r"," ","s","h","a","r","e"," ","o","f"," ","$",".","4","5">>, <<>>) }

\* the text trafilatura extracts when it extracts one
TrafTexts == { <<"N","e","t"," ","i","n","c","o","m","e"," ","w","a","s"," ","$","2"," ","m","n">> }

AnchorKinds ==
    { Anchor(<<"/","p","r","e","s","s","-","r","e","l","e","a","s","e","/","q","3">>, <<"Q","3"," ","r","e","s","u","l","t","s">>),
      Anchor(<<" ","h","t","t","p","s",":","/","/","b",".","c","o","/","x"," ">>, <<"E","a","r","n","i","n","g","s"," ","C","a","l","l">>),
      Anchor(<<"/","a","b","o","u","t">>, <<"A","b","o","u","t"," ","u","s">>) }

IndexDocs == { Doc(Some(<<"N","e","w","s">>), <<>>, as) : as \in SeqsUpTo(AnchorKinds, MaxAnchors) }

\* _fetch_html (lines 41-50): the values it can return for url when the web
\* serves the documents docs; None is any failure or non-200 status
_fetch_html(url, docs) ==
    IF Fetchable(url) THEN {None} \cup {Some(d) : d \in docs} ELSE {None}

\* what the trafilatura call of line 57 can give for url
Trafilatura(url) ==
    IF Fetchable(url) THEN {None} \cup {Some(t) : t \in TrafTexts} ELSE {None}

\* Fragments for _parse_money: pre \o num \o sep \o unit \o post.  Each number
\* and unit is listed with the value it denotes.
NumTable ==
    { [s |-> <<"1","4",".","9">>, v |-> Some(Num(149, -1))],
      [s |-> <<"1",",","2","3","4",".","5","6">>, v |-> Some(Num(123456, -2))],
      [s |-> <<"5">>, v |-> Some(Num(5, 0))],
      [s |-> <<"0">>, v |-> Some(Num(0, 0))],
      [s |-> <<"1",".">>, v |-> Some(Num(1, 0))],
      [s |-> <<".","5">>, v |-> Some(Num(5, -1))],
      [s |-> <<"2",",","5","0","0">>, v |-> Some(Num(25, 2))],
      [s |-> <<".">>, v |-> None],
      [s |-> <<",">>, v |-> None],
      [s |-> <<"1",".","2",".","3">>, v |-> None],
      [s |-> <<>>, v |-> None] }

UnitTable ==
    { [s |-> <<>>, x |-> 0],
      [s |-> <<"b","i","l","l","i","o","n">>, x |-> 9],
      [s |-> <<"B","N">>, x |-> 9],
      [s |-> <<"M","i","l","l","i","o","n">>, x |-> 6],
      [s |-> <<"m","n">>, x |-> 6],
      [s |-> <<"T","H","O","U","S","A","N","D">>, x |-> 3],
      [s |-> <<"k">>, x |-> 3],
      [s |-> <<"m">>, x |-> 0],
      [s |-> <<"u","n","i","t","s">>, x |-> 0] }

\* dot: the prefix itself holds a "." before the number
PrefixTable ==
    { [s |-> <<>>, dot |-> FALSE],
      [s |-> <<"$">>, dot |-> FALSE],
      [s |-> <<"$"," ">>, dot |-> FALSE],
      [s |-> <<"n","/","a">>, dot |-> FALSE],
      [s |-> <<"a","b","o","u","t"," ">>, dot |-> FALSE],
      [s |-> <<"a","p","p","r","o","x","."," ","$">>, dot |-> TRUE] }

Seps == { <<>>, <<" ">> }

Posts == { <<>>, <<" ","i","n"," ","s","a","l","e","s">> }

MoneyInputs ==
    { [pre |-> p, num |-> n, sep |-> g, unit |-> u, post |-> q] :
        p \in PrefixTable, n \in NumTable, g \in Seps, u \in UnitTable, q \in Posts }

Fragment(a) == a.pre.s \o a.num.s \o a.sep \o a.unit.s \o a.post

\* Texts for extract_financial_figures: up to four sentences, each amount
\* listed with the value it denotes.
RevAmounts ==
    { [s |-> <<"$","1","4",".","9"," ","b","i","l","l","i","o","n">>, v |-> Num(149, 8)],
      [s |-> <<"$","5"," ","m","i","l","l","i","o","n">>, v |-> Num(5, 6)],
      [s |-> <<"1",",","2","3","4">>, v |-> Num(1234, 0)] }

NiAmounts ==
    { [s |-> <<"$","2",".","1"," ","m","i","l","l","i","o","n">>, v |-> Num(21, 5)],
      [s |-> <<"$","3"," ","b","n">>, v |-> Num(3, 9)] }

EpsAmounts ==
    { [s |-> <<"$","1",".","2","3">>, v |-> Num(123, -2)],
      [s |-> <<"$","2">>, v |-> Num(2, 0)],
      [s |-> <<"$"," ","4">>, v |-> Num(4, 0)],
      [s |-> <<"$",".","4","5">>, v |-> Num(45, -2)] }

YoyAmounts ==
    { [s |-> <<"+","5",".","0","%">>, v |-> Num(5, 0)],
      [s |-> <<"-","3",".","2","%">>, v |-> Num(-32, -1)],
      [s |-> <<"7"," ","%">>, v |-> Num(7, 0)] }

Opt(S) == {None} \cup {Some(e) : e \in S}

FigureInputs ==
    { [rev |-> r, ni |-> n, eps |-> e, yoy |-> y] :
        r \in Opt(RevAmounts), n \in Opt(NiAmounts), e \in Opt(EpsAmounts),
        y \in Opt(YoyAmounts) }

TextOf(a) ==
    (IF a.rev = None THEN <<>> ELSE <<"T","o","t","a","l"," ","r","e","v","e","n","u","e"," ","w","a","s"," ">> \o a.rev[1].s \o <<","," ">>)
    \o (IF a.ni = None THEN <<>> ELSE <<"G","A","A","P"," ","n","e","t"," ","i","n","c","o","m","e"," ","w","a","s"," ">> \o a.ni[1].s \o <<"."," ">>)
    \o (IF a.eps = None THEN <<>> ELSE <<"E","a","r","n","i","n","g","s"," ","p","e","r"," ","s","h","a","r","e"," ","w","a","s"," ">> \o a.eps[1].s \o <<"."," ">>)
    \o (IF a.yoy = None THEN <<>>
        ELSE <<"Y","e","a","r","-","o","v","e","r","-","y","e","a","r"," ","g","r","o","w","t","h"," ","o","f"," ">> \o a.yoy[1].s \o <<".">>)

\* Inputs for compose_summary
Titles == { None, Some(<<>>), Some(<<"Q","3">>) }

FigsInputs ==
    { Entry("revenue", r) @@ Entry("net_income", n) @@ Entry("eps", e)
        @@ Entry("yoy_percent", y) :
        r \in {None, Some(Num(149, 8))}, n \in {None, Some(Num(21, 5))},
        e \in {None, Some(Num(123, -2))},
        y \in {None, Some(Num(32, -1)), Some(Num(-32, -1))} }

----------------------------------------------------------------------------
(* The calls *)

Init ==
    /\ pc = "idle"
    /\ call = ""
    /\ arg = <<>>
    /\ urls = <<>>
    /\ idx = 1
    /\ rows = <<>>
    /\ env = <<>>
    /\ links = <<>>
    /\ exc = ""
    /\ out = <<>>

\* a call of _parse_money(value)
ParseMoney ==
    /\ pc = "idle"
    /\ \E a \in MoneyInputs :
        /\ arg' = a
        /\ out' = _parse_money(Fragment(a))
    /\ pc' = "done"
    /\ call' = "_parse_money"
    /\ UNCHANGED <<urls, idx, rows, env, links, exc>>

\* a call of extract_financial_figures(text)
ExtractFigures ==
    /\ pc = "idle"
    /\ \E a \in FigureInputs :
        \E r \in {extract_financial_figures(TextOf(a))} :
            /\ arg' = a
            /\ out' = r.val
            /\ exc' = r.exc
    /\ pc' = "done"
    /\ call' = "extract_financial_figures"
    /\ UNCHANGED <<urls, idx, rows, env, links>>

\* a call of compose_summary(title, figs)
ComposeSummary ==
    /\ pc = "idle"
    /\ \E t \in Titles, f \in FigsInputs :
        /\ arg' = [title |-> t, figs |-> f]
        /\ out' = compose_summary(t, f)
    /\ pc' = "done"
    /\ call' = "compose_summary"
    /\ UNCHANGED <<urls, idx, rows, env, links, exc>>

\* a call of _discover_press_release_links(index_url, max_links)
Discover ==
    /\ pc = "idle"
    /\ \E u \in IndexUrls, n \in 0..MaxLinks :
        \E html \in _fetch_html(u, IndexDocs) :
            /\ arg' = [index_url |-> u, max_links |-> n, html |-> html]
            /\ links' = _discover_press_release_links(u, html, n)
    /\ pc' = "done"
    /\ call' = "_discover_press_release_links"
    /\ UNCHANGED <<urls, idx, rows, env, exc, out>>

\* analyze_from_urls(urls): entering the loop of line 193
AnalyzeFromUrls ==
    /\ pc = "idle"
    /\ \E us \in SeqsUpTo(Urls, MaxUrls) :
        /\ arg' = [urls |-> us]
        /\ urls' = us
    /\ pc' = "loop"
    /\ call' = "analyze_from_urls"
    /\ UNCHANGED <<idx, rows, env, links, exc, out>>

\* crawl_from_index(index_url, max_links): the discovery, then
\* analyze_from_urls(links or [index_url])
CrawlFromIndex ==
    /\ pc = "idle"
    /\ \E u \in IndexUrls, n \in 0..MaxLinks :
        \E html \in _fetch_html(u, IndexDocs) :
            \E found \in {_discover_press_release_links(u, html, n)} :
                /\ arg' = [index_url |-> u, max_links |-> n]
                /\ links' = found
                /\ urls' = IF found # <<>> THEN found ELSE <<u>>
    /\ pc' = "loop"
    /\ call' = "crawl_from_index"
    /\ UNCHANGED <<idx, rows, env, exc, out>>

\* analyze(query, max_results): the search gives up to max_results results
\* (none when it raises); their normalized, non-empty hrefs are analyzed
Analyze ==
    /\ pc = "idle"
    /\ \E n \in 0..MaxUrls :
        \E hrefs \in SeqsUpTo(Urls, n) :
            \E found \in {SelectSeq([i \in 1..Len(hrefs) |-> _normalize_url(hrefs[i])],
                                     LAMBDA h : h # <<>>)} :
                /\ arg' = [max_results |-> n]
                /\ links' = found
                /\ urls' = found
                /\ pc' = IF found = <<>> THEN "done" ELSE "loop"
    /\ call' = "analyze"
    /\ UNCHANGED <<idx, rows, env, exc, out>>

\* Faulty variant of LoopStep: a URL whose fetch failed gets no row
LoopStep_skips_failed ==
    /\ pc = "loop"
    /\ idx <= Len(urls)
    /\ \E url \in {_normalize_url(urls[idx])} :
         \E html \in _fetch_html(url, PageDocs), traf \in Trafilatura(url) :
            \E r \in {_build_row(url, PageTitle(html), _extract_text(traf, html))} :
                /\ env' = Append(env, [html |-> html, traf |-> traf])
                /\ IF html = None
                   THEN /\ idx' = idx + 1
                        /\ UNCHANGED <<rows, exc, pc>>
                   ELSE IF r.exc # ""
                   THEN /\ exc' = r.exc
                        /\ pc' = "done"
                        /\ UNCHANGED <<rows, idx>>
                   ELSE /\ rows' = Append(rows, r.val)
                        /\ idx' = idx + 1
                        /\ UNCHANGED <<exc, pc>>
    /\ UNCHANGED <<call, arg, urls, links, out>>

\* one pass of the loop body of analyze_from_urls (lines 194-205) with what
\* the network gave for the URL; an exception of _build_row ends the call
LoopStep ==
    /\ pc = "loop"
    /\ idx <= Len(urls)
    /\ \E url \in {_normalize_url(urls[idx])} :
         \E html \in _fetch_html(url, PageDocs), traf \in Trafilatura(url) :
            \E r \in {_build_row(url, PageTitle(html), _extract_text(traf, html))} :
                /\ env' = Append(env, [html |-> html, traf |-> traf])
                /\ IF r.exc # ""
                   THEN /\ exc' = r.exc
                        /\ pc' = "done"
                        /\ UNCHANGED <<rows, idx>>
                   ELSE /\ rows' = Append(rows, r.val)
                        /\ idx' = idx + 1
                        /\ UNCHANGED <<exc, pc>>
    /\ UNCHANGED <<call, arg, urls, links, out>>

\* return rows (line 206)
LoopReturn ==
    /\ pc = "loop"
    /\ idx > Len(urls)
    /\ pc' = "done"
    /\ UNCHANGED <<call, arg, urls, idx, rows, env, links, exc, out>>

Next ==
    \/ ParseMoney
    \/ ExtractFigures
    \/ ComposeSummary
    \/ Discover
    \/ AnalyzeFromUrls
    \/ CrawlFromIndex
    \/ Analyze
    \/ LoopStep
    \/ LoopReturn

Spec == Init /\ [][Next]_vars

----------------------------------------------------------------------------
(* The claims *)

NoFigure(row) ==
    /\ row.revenue_usd = None
    /\ row.net_income_usd = None
    /\ row.eps = None
    /\ row.yoy_percent = None

Falsy(title) == title = None \/ title[1] = <<>>

\* C1: analyze_from_urls never aborts a batch: every call returns normally
\* with exactly one row per input URL, the i-th row built from the i-th URL,
\* whatever the fetches and the page texts are.
C1_NeverAbortsBatch ==
    (call = "analyze_from_urls" /\ pc = "done") =>
        /\ exc = ""
        /\ Len(rows) = Len(urls)
        /\ \A i \in 1..Len(rows) : rows[i].url = _normalize_url(urls[i])

\* "Total revenue was $14.9 billion, GAAP net income was $2.1 million. Earnings
\* per share was $1.23. Year-over-year growth of +5.0%."
E2EText ==
    <<"T","o","t","a","l"," ","r","e","v","e","n","u","e"," ","w","a","s"," ","$","1","4",".","9"," ","b","i","l","l","i","o","n",","," ","G","A","A","P"," ","n","e","t"," ","i","n","c","o","m","e"," ","w","a","s"," ","$","2",".","1"," ","m","i","l","l","i","o","n","."," ","E","a","r","n","i","n","g","s"," ","p","e","r"," ","s","h","a","r","e"," ","w","a","s"," ","$","1",".","2","3","."," ","Y","e","a","r","-","o","v","e","r","-","y","e","a","r"," ","g","r","o","w","t","h"," ","o","f"," ","+","5",".","0","%",".">>

E2EFigures ==
    ("revenue" :> Num(149, 8)) @@ ("net_income" :> Num(21, 5))
    @@ ("eps" :> Num(123, -2)) @@ ("yoy_percent" :> Num(5, 0))

\* C2: extract_financial_figures returns the full unit-scaled value of an
\* amount written with a decimal point: the end-to-end text yields revenue
\* 14_900_000_000, net income 2_100_000, eps 1.23 and yoy 5.0, and every
\* revenue and net income amount d.f followed by a unit is d.f times the unit.
C2_FullScaledAmounts ==
    (call = "extract_financial_figures" /\ pc = "done" /\ exc = "") =>
        /\ TextOf(arg) = E2EText => out = E2EFigures
        /\ arg.rev # None => Get(out, "revenue") = Some(arg.rev[1].v)
        /\ arg.ni # None => Get(out, "net_income") = Some(arg.ni[1].v)

\* C3 as stated: compose_summary returns the sentinel whenever figs holds none
\* of the four keys, for every title, and so does the summary of every row
\* without figures.
C3_SentinelWheneverNoFigures ==
    /\ (call = "compose_summary" /\ pc = "done" /\ DOMAIN arg.figs \cap FigureKeys = {})
           => out = Sentinel
    /\ \A i \in 1..Len(rows) : NoFigure(rows[i]) => rows[i].summary = Sentinel

\* C3 as amended: compose_summary returns the sentinel exactly when figs
\* holds none of the four keys and the title is absent or empty; with a
\* non-empty title and no figure it returns the "Report: <title>" segment
\* alone, and so does the summary of a row without figures.
C3_SentinelOnlyWithoutTitle ==
    /\ (call = "compose_summary" /\ pc = "done") =>
        /\ out = Sentinel <=> (DOMAIN arg.figs \cap FigureKeys = {} /\ Falsy(arg.title))
        /\ (DOMAIN arg.figs \cap FigureKeys = {} /\ ~Falsy(arg.title))
               => out = << Part("Report: ", arg.title[1], None, "", "") >>
    /\ \A i \in 1..Len(rows) :
        NoFigure(rows[i]) =>
            /\ rows[i].summary = Sentinel <=> Falsy(rows[i].title)
            /\ ~Falsy(rows[i].title)
                   => rows[i].summary = << Part("Report: ", rows[i].title[1], None, "", "") >>

\* a summary of a title and no figure, from compose_summary and in a row
C3_TitleAndNoFigures ==
    /\ call = "compose_summary"
    /\ pc = "done"
    /\ arg.title = Some(<<"Q","3">>)
    /\ DOMAIN arg.figs = {}
    /\ out # Sentinel

\* the value the fragment of a denotes: the listed number times the listed
\* unit, None when the first run of [0-9.,] is not a number
MoneyValue(a) ==
    IF a.pre.dot \/ a.num.v = None THEN None
    ELSE Some(Scale(a.num.v[1], a.unit.x))

\* C4: _parse_money returns the first numeric run times 1e9 / 1e6 / 1e3 when
\* billion|bn / million|mn / thousand|k follows it (after optional
\* whitespace, in any case), the bare number without a unit, and no value
\* when there is no numeric run or it is not a number; "$14.9 billion" gives
\* 14_900_000_000, "1,234.56" gives 1234.56 and "n/a" gives no value.
C4_ParseMoneyValue ==
    (call = "_parse_money" /\ pc = "done") =>
        /\ out = MoneyValue(arg)
        /\ Fragment(arg) = <<"$","1","4",".","9"," ","b","i","l","l","i","o","n">> => out = Some(Num(149, 8))
        /\ Fragment(arg) = <<"1",",","2","3","4",".","5","6">> => out = Some(Num(123456, -2))
        /\ Fragment(arg) = <<"n","/","a">> => out = None

\* "$ 1,234.56 Million in sales" parsed to 1_234_560_000
C4_ScaledAmountParsed ==
    /\ call = "_parse_money"
    /\ pc = "done"
    /\ Fragment(arg) = <<"$"," ","1",",","2","3","4",".","5","6"," ","M","i","l","l","i","o","n"," ","i","n"," ","s","a","l","e","s">>
    /\ out = Some(Num(123456, 4))

AllFailed == \A i \in 1..Len(env) : env[i].html = None /\ env[i].traf = None

QualifyingLinks(index_url, anchors) ==
    LET q == SelectSeq(anchors, Qualifies)
    IN  [i \in 1..Len(q) |-> urljoin(index_url, Strip(q[i].href))]

\* C6: _discover_press_release_links returns exactly the first min(N, q)
\* qualifying links in document order, never more than N, for every N
\* including 0.
C6_FirstNQualifying ==
    (call = "_discover_press_release_links" /\ pc = "done" /\ arg.html # None) =>
        LET q == QualifyingLinks(arg.index_url, arg.html[1].anchors)
            n == IF arg.max_links < Len(q) THEN arg.max_links ELSE Len(q)
        IN  links = SubSeq(q, 1, n)

\* C7 as stated: every row has a url that carries a scheme, for every input.
C7_EveryUrlHasScheme ==
    \A i \in 1..Len(rows) : UrlScheme(rows[i].url) # <<>>

\* C7 as amended: the row of a non-empty input URL has a url that carries a
\* scheme; the row of the empty string has the empty string as its url; the
\* rows of analyze all carry a scheme.
C7_NonEmptyUrlHasScheme ==
    \A i \in 1..Len(rows) :
        /\ urls[i] # <<>> => UrlScheme(rows[i].url) # <<>>
        /\ urls[i] = <<>> => rows[i].url = <<>>
        /\ call = "analyze" => UrlScheme(rows[i].url) # <<>>

\* the row of the scheme-less input "a.co" has the url "https://a.co"
C7_SchemePrepended ==
    \E i \in 1..Len(rows) : urls[i] = <<"a",".","c","o">> /\ rows[i].url = <<"h","t","t","p","s",":","/","/","a",".","c","o">>

\* C8: crawl_from_index returns the rows of analyze_from_urls over exactly the
\* discovered links, in discovery order, when there are any, and exactly one
\* row, built from the index URL, when there are none; it never returns an
\* empty list.
C8_CrawlRows ==
    (call = "crawl_from_index" /\ pc = "done") =>
        /\ exc = ""
        /\ rows # <<>>
        /\ links # <<>> =>
            /\ Len(rows) = Len(links)
            /\ \A i \in 1..Len(rows) : rows[i].url = _normalize_url(links[i])
        /\ links = <<>> =>
            /\ Len(rows) = 1
            /\ rows[1].url = _normalize_url(arg.index_url)

\* C9: yoy_percent is kept signed: a number written with a leading minus sign
\* gives a negative yoy_percent and a summary that reads "down", a number
\* with a plus sign or no sign gives the positive value.
C9_YoySigned ==
    (call = "extract_financial_figures" /\ pc = "done" /\ exc = "" /\ arg.yoy # None) =>
        /\ Get(out, "yoy_percent") = Some(arg.yoy[1].v)
        /\ arg.yoy[1].v.m < 0 =>
            compose_summary(None, out)[Len(compose_summary(None, out))].dir = "down"

\* C10: extract_financial_figures returns a mapping for every text and never
\* raises; a key whose capture does not parse is absent and the other keys
\* are still extracted.
C10_NeverRaises ==
    (call = "extract_financial_figures" /\ pc = "done") =>
        /\ exc = ""
        /\ DOMAIN out \subseteq FigureKeys
        /\ (arg.rev # None) <=> "revenue" \in DOMAIN out
        /\ (arg.yoy # None) <=> "yoy_percent" \in DOMAIN out

====
